---- MODULE Spec2Model ----
(***************************************************************************)
(* A model of the console stock manager of src/main.py: the Product        *)
(* entity (quantity validation, name matching) and the StockManager        *)
(* interaction loop (add, delete, recount, list, inspect, exit).           *)
(*                                                                         *)
(* A Python str is a sequence of one-character strings.  A Product object  *)
(* is its attribute dictionary (a function from attribute names).  The     *)
(* products dict is the sequence of its (key, value) entries in insertion  *)
(* order; a reference to a Product object held in a local variable is the  *)
(* position of that object in the dict.                                    *)
(***************************************************************************)
EXTENDS Integers, Sequences, FiniteSets, TLC

\* ------------------------------------------------------------------ bounds
\* Number of products ever created in one run (uuid4 calls).
MaxIds == 2
\* Quantities typed by the operator range over -MaxQty..MaxQty.
MaxQty == 1
\* Lengths of the generated raw names and queries of SpecMatch.
MaxNameLen == 5
MaxQueryLen == 4

VARIABLES
    products,   \* StockManager.products: <<[key, value]>> in insertion order
    uuidCount,  \* how many uuid4() values have been drawn
    issued,     \* history: every id that was ever stored in the dict
    pc,         \* where the interaction loop is waiting
    op,         \* the handler that called get_product: "del", "chg", "info"
    nome,       \* get_product's local nome
    produtos,   \* get_product's local produtos (references)
    produto,    \* the handler's local produto (a reference), 0 when unbound
    last,       \* inputs read and message shown by the last step
    m_product,  \* SpecMatch: the Product object under test
    m_query,    \* SpecMatch: the name given to matching_names
    m_result    \* SpecMatch: <<>>, or <<b>> once matching_names returned b

vars == <<products, uuidCount, issued, pc, op, nome, produtos, produto, last,
          m_product, m_query, m_result>>

mgr_vars == <<products, uuidCount, issued, pc, op, nome, produtos, produto, last>>

match_vars == <<m_product, m_query, m_result>>

\* ------------------------------------------------------------ Python str
\* The cased characters the inputs use, as <<lower, upper>> pairs.
CasePairs ==
    { <<"a","A">>, <<"b","B">>, <<"e","E">>, <<"i","I">>, <<"l","L">>,
      <<"m","M">>, <<"n","N">>, <<"o","O">>, <<"p","P">>, <<"s","S">> }

IsLower(c) == \E p \in CasePairs : p[1] = c

IsUpper(c) == \E p \in CasePairs : p[2] = c

IsCased(c) == IsLower(c) \/ IsUpper(c)

IsSpace(c) == c = " "

lower_char(c) == IF IsUpper(c) THEN (CHOOSE p \in CasePairs : p[2] = c)[1] ELSE c

upper_char(c) == IF IsLower(c) THEN (CHOOSE p \in CasePairs : p[1] = c)[2] ELSE c

\* str.lower()
lower(s) == [i \in 1..Len(s) |-> lower_char(s[i])]

\* str.title(): a cased character is upper-cased when the character before
\* it is not cased, and lower-cased when it is.
title(s) ==
    [i \in 1..Len(s) |->
        IF i > 1 /\ IsCased(s[i-1]) THEN lower_char(s[i]) ELSE upper_char(s[i])]

RECURSIVE lstrip(_)
lstrip(s) == IF s # <<>> /\ IsSpace(Head(s)) THEN lstrip(Tail(s)) ELSE s

RECURSIVE rstrip(_)
rstrip(s) ==
    IF s # <<>> /\ IsSpace(s[Len(s)]) THEN rstrip(SubSeq(s, 1, Len(s) - 1)) ELSE s

\* str.strip()
strip(s) == rstrip(lstrip(s))

\* str.startswith(prefix)
startswith(s, prefix) ==
    Len(s) >= Len(prefix) /\ SubSeq(s, 1, Len(prefix)) = prefix

\* Python's `sub in s` on strings
str_in(sub, s) ==
    \E i \in 0..(Len(s) - Len(sub)) : SubSeq(s, i + 1, i + Len(sub)) = sub

\* ------------------------------------------------------- Python objects
\* obj.attr = value
setattr(obj, attr, value) == (attr :> value) @@ obj

\* Mutant of uuid4: a generator that returns the same value at every call.
uuid4_repeat(n) == 1

\* uuid4(): a value no earlier call has returned; n calls were made so far.
uuid4(n) == n + 1

\* --------------------------------------------------------------- Product
\* Mutant of re_count: the check is missing.
re_count_unchecked(self, new_quantity) ==
    [raised |-> FALSE, obj |-> setattr(self, "quantity", new_quantity)]

\* Mutant of re_count: the quantity is assigned before it is checked.
re_count_assign_first(self, new_quantity) ==
    [raised |-> new_quantity < 0, obj |-> setattr(self, "quantity", new_quantity)]

\* Mutant of re_count: zero is refused too (> in place of >=).
re_count_positive_only(self, new_quantity) ==
    IF new_quantity > 0
    THEN [raised |-> FALSE, obj |-> setattr(self, "quantity", new_quantity)]
    ELSE [raised |-> TRUE, obj |-> self]

\* Product.re_count: [raised, obj] is whether ValueError was raised and the
\* object as the call leaves it.
re_count(self, new_quantity) ==
    IF new_quantity >= 0
    THEN [raised |-> FALSE, obj |-> setattr(self, "quantity", new_quantity)]
    ELSE [raised |-> TRUE, obj |-> self]

\* Mutant of Product.__init__: the quantity argument is dropped and the
\* default 0 is counted.
Product_default_quantity(name, quantity, n) ==
    [raised |-> quantity < 0,
     obj |-> [nome |-> name, quantity |-> 0, id |-> uuid4(n)]]

\* Product.__init__: n is the number of uuid4() calls made so far.
Product(name, quantity, n) ==
    LET self0 == [nome |-> name]
        r     == re_count(self0, quantity)
    IN  IF r.raised
        THEN [raised |-> TRUE, obj |-> r.obj]
        ELSE [raised |-> FALSE, obj |-> setattr(r.obj, "id", uuid4(n))]

\* Product.out_of_stock
out_of_stock(self) == self.quantity = 0

\* Mutant of matching_names: the length test is >= 3 in place of > 3.
matching_names_ge3(self, name) ==
    LET s_nome     == lower(strip(name))
        s_original == lower(strip(self.nome))
    IN  str_in(s_nome, s_original) /\ (Len(s_nome) >= 3 \/ s_original = s_nome)

\* Product.matching_names
matching_names(self, name) ==
    LET s_nome     == lower(strip(name))
        s_original == lower(strip(self.nome))
    IN  str_in(s_nome, s_original) /\ (Len(s_nome) > 3 \/ s_original = s_nome)

\* Product.name
name_of(self) == title(self.nome)

\* Product.info
info_of(self) ==
    [id |-> self.id, nome |-> name_of(self), quantidade |-> self.quantity,
     fora_de_estoque |-> out_of_stock(self)]

\* ------------------------------------------------------------ Python dict
has_key(d, k) == \E i \in 1..Len(d) : d[i].key = k

\* d[k]
dict_get(d, k) == d[CHOOSE i \in 1..Len(d) : d[i].key = k].value

\* d[k] = v: an existing key keeps its place, a new key goes last
dict_set(d, k, v) ==
    IF has_key(d, k)
    THEN [i \in 1..Len(d) |-> IF d[i].key = k THEN [key |-> k, value |-> v] ELSE d[i]]
    ELSE Append(d, [key |-> k, value |-> v])

\* Mutant of del d[k]: the oldest entry is removed, whatever the key.
dict_del_oldest(d, k) == Tail(d)

\* del d[k]
dict_del(d, k) == SelectSeq(d, LAMBDA e : e.key # k)

\* The object a reference points to, and the dict after that object changed.
deref(d, ref) == d[ref].value

store(d, ref, obj) == [d EXCEPT ![ref].value = obj]

\* ----------------------------------------------------------- operator input
\* Raw text typed at the name prompt of add_product.
NameInputs ==
    { <<"a","p","p","l","e">>,
      <<"A","p","p","l","e"," ","p","i","e">>,
      <<" ","p","i","e"," ">> }

\* Raw text typed at the name prompt of get_product.
QueryInputs ==
    { <<"a","p","p","l","e">>,
      <<"p","i","e">>,
      <<" ","A","P","P","L","E"," ","p","i","e">>,
      <<"l","i","m","e">> }

\* Raw text typed at the "Deseja realmente apagar?" prompt.
ConfirmInputs ==
    { <<"s","i","m">>, <<" ","S">>, <<"n","a","o">>, <<>> }

\* Integers typed at the quantity prompts.
QtyInputs == (0 - MaxQty)..MaxQty

\* Integers typed at the "Qual é o produto" prompt.
IndexInputs == (0 - 1)..(MaxIds + 1)

\* Menu choices no case of the match statement names.
OtherChoices == {0 - 1, 6}

\* ----------------------------------------------------------- StockManager
\* StockManager.require with type_required = str: the stripped input.
\* With type_required = int the prompt repeats until the text is an integer,
\* so the integer prompts below read integers.
require(resultado) == strip(resultado)

\* The accepted range of StockManager.require_index.
require_index_accepts(numero, max) == 0 <= numero /\ numero <= max

\* The filter of get_product: the references, in dict order, of the products
\* whose matching_names(nome) holds, each looked up again by its id.
refs(d) == [i \in 1..Len(d) |-> i]

\* Mutant of the filter: it stops at the first match.
filter_first_match(d, nm) ==
    LET all == SelectSeq(refs(d), LAMBDA r : matching_names(deref(d, r), nm))
    IN  IF all = <<>> THEN <<>> ELSE <<all[1]>>

filter_matching(d, nm) ==
    SelectSeq(refs(d), LAMBDA r : matching_names(dict_get(d, deref(d, r).id), nm))

\* Which handler a menu choice enters.
handler(escolha) ==
    CASE escolha = 2 -> "del" [] escolha = 3 -> "chg" [] escolha = 5 -> "info"

\* What is on the screen after a step: the step, the inputs it read, the
\* message it showed (or the exception that ended the process), the data shown.
screen(act, text, num, status, out) ==
    [act |-> act, text |-> text, num |-> num, status |-> status, out |-> out]

\* The locals of a handler that returned.
NoLocals ==
    /\ op' = ""
    /\ nome' = <<>>
    /\ produtos' = <<>>
    /\ produto' = 0

\* StockManager.table: one row per product, name and quantity cell.
table_rows(d) ==
    [i \in 1..Len(d) |->
        <<name_of(d[i].value),
          IF out_of_stock(d[i].value) THEN "FORA DE ESTOQUE" ELSE d[i].value.quantity>>]

Init ==
    /\ products = <<>>
    /\ uuidCount = 0
    /\ issued = {}
    /\ pc = "menu"
    /\ op = ""
    /\ nome = <<>>
    /\ produtos = <<>>
    /\ produto = 0
    /\ last = screen("start", <<>>, 0, "", <<>>)
    /\ m_product = Product(<<>>, 0, 0).obj
    /\ m_query = <<>>
    /\ m_result = <<>>

\* interface, case 0: exit(0)
Exit ==
    /\ pc = "menu"
    /\ pc' = "exited"
    /\ last' = screen("exit", <<>>, 0, "Adeus", <<>>)
    /\ UNCHANGED <<products, uuidCount, issued, op, nome, produtos, produto>>
    /\ UNCHANGED match_vars

\* interface, case _: "Não entendi"
Unknown(escolha) ==
    /\ pc = "menu"
    /\ last' = screen("unknown", <<>>, escolha, "Nao entendi", <<>>)
    /\ UNCHANGED <<products, uuidCount, issued, pc, op, nome, produtos, produto>>
    /\ UNCHANGED match_vars

\* interface, case 4: table
Table ==
    /\ pc = "menu"
    /\ last' = IF Len(products) > 0
               THEN screen("table", <<>>, 0, "table", table_rows(products))
               ELSE screen("table", <<>>, 0, "Zero produtos", <<>>)
    /\ UNCHANGED <<products, uuidCount, issued, pc, op, nome, produtos, produto>>
    /\ UNCHANGED match_vars

\* interface, case 1: add_product.  The ValueError of Product.__init__ is
\* caught neither by add_product nor by interface: it ends the process.
AddProduct(raw, nova_quantidade) ==
    /\ pc = "menu"
    /\ uuidCount < MaxIds
    /\ LET novo_nome == title(require(raw))
           r == Product(novo_nome, nova_quantidade, uuidCount)
       IN  IF r.raised
           THEN /\ pc' = "crashed"
                /\ last' = screen("add", raw, nova_quantidade, "ValueError", <<>>)
                /\ UNCHANGED <<products, uuidCount, issued>>
           ELSE /\ products' = dict_set(products, r.obj.id, r.obj)
                /\ uuidCount' = uuidCount + 1
                /\ issued' = issued \cup {r.obj.id}
                /\ pc' = "menu"
                /\ last' = screen("add", raw, nova_quantidade, "adicionado", <<>>)
    /\ UNCHANGED <<op, nome, produtos, produto>>
    /\ UNCHANGED match_vars

\* What a handler does once get_product has returned the reference p:
\* del_product asks for confirmation, change_qtd asks for the new quantity,
\* info shows the product and returns to the menu.
Resolved(o, nm, prods, p, act, text, num) ==
    /\ UNCHANGED <<products, uuidCount, issued>>
    /\ CASE o = "del" ->
              /\ pc' = "confirm"
              /\ op' = o /\ nome' = nm /\ produtos' = prods /\ produto' = p
              /\ last' = screen(act, text, num, "Deseja realmente apagar", <<>>)
         [] o = "chg" ->
              /\ pc' = "qty"
              /\ op' = o /\ nome' = nm /\ produtos' = prods /\ produto' = p
              /\ last' = screen(act, text, num, "Qual o novo numero", <<>>)
         [] o = "info" ->
              /\ pc' = "menu"
              /\ NoLocals
              /\ last' = screen(act, text, num, "info", info_of(deref(products, p)))

\* interface, cases 2, 3 and 5, up to the first prompt after the name:
\* get_product reads the name and filters; ProductNotFound is caught by
\* each of the three handlers.
Lookup(escolha, raw) ==
    /\ pc = "menu"
    /\ LET o     == handler(escolha)
           nm    == require(raw)
           prods == filter_matching(products, nm)
       IN  IF Len(prods) > 1
           THEN /\ pc' = "index"
                /\ op' = o /\ nome' = nm /\ produtos' = prods /\ produto' = 0
                /\ last' = screen("lookup", raw, escolha, "Qual e o produto", <<>>)
                /\ UNCHANGED <<products, uuidCount, issued>>
           ELSE IF Len(prods) = 1
           THEN Resolved(o, nm, prods, prods[0 + 1], "lookup", raw, escolha)
           ELSE /\ pc' = "menu"
                /\ NoLocals
                /\ last' = screen("lookup", raw, escolha, "ProductNotFound", <<>>)
                /\ UNCHANGED <<products, uuidCount, issued>>
    /\ UNCHANGED match_vars

\* require_index and the rest of get_product: a number outside 0..max is
\* refused and asked again; produtos[index] raises IndexError, which no
\* handler catches, when index = len(produtos).
GiveIndex(numero) ==
    /\ pc = "index"
    /\ IF require_index_accepts(numero, Len(produtos))
       THEN IF numero < Len(produtos)
            THEN Resolved(op, nome, produtos, produtos[numero + 1], "index", <<>>, numero)
            ELSE /\ pc' = "crashed"
                 /\ last' = screen("index", <<>>, numero, "IndexError", <<>>)
                 /\ UNCHANGED <<products, uuidCount, issued, op, nome, produtos, produto>>
       ELSE /\ last' = screen("index", <<>>, numero, "O numero tem de ser", <<>>)
            /\ UNCHANGED <<products, uuidCount, issued, pc, op, nome, produtos, produto>>
    /\ UNCHANGED match_vars

\* del_product after get_product
Confirm(raw) ==
    /\ pc = "confirm"
    /\ LET deseja_apagar == startswith(lower(require(raw)), <<"s">>)
       IN  IF deseja_apagar
           THEN IF has_key(products, deref(products, produto).id)
                THEN /\ products' = dict_del(products, deref(products, produto).id)
                     /\ pc' = "menu"
                     /\ last' = screen("confirm", raw, 0, "Apagado", <<>>)
                ELSE /\ pc' = "crashed"
                     /\ last' = screen("confirm", raw, 0, "KeyError", <<>>)
                     /\ UNCHANGED products
           ELSE /\ pc' = "menu"
                /\ last' = screen("confirm", raw, 0, "Cancelando", <<>>)
                /\ UNCHANGED products
    /\ NoLocals
    /\ UNCHANGED <<uuidCount, issued>>
    /\ UNCHANGED match_vars

\* change_qtd after get_product: ValueError is caught and reported
GiveQty(nova_quantidade) ==
    /\ pc = "qty"
    /\ LET r == re_count(deref(products, produto), nova_quantidade)
       IN  /\ products' = store(products, produto, r.obj)
           /\ last' = screen("qty", <<>>, nova_quantidade,
                             IF r.raised THEN "ValueError" ELSE "Salvo", <<>>)
    /\ pc' = "menu"
    /\ NoLocals
    /\ UNCHANGED <<uuidCount, issued>>
    /\ UNCHANGED match_vars

Next ==
    \/ Exit
    \/ \E escolha \in OtherChoices : Unknown(escolha)
    \/ Table
    \/ \E raw \in NameInputs, q \in QtyInputs : AddProduct(raw, q)
    \/ \E escolha \in {2, 3, 5}, raw \in QueryInputs : Lookup(escolha, raw)
    \/ \E numero \in IndexInputs : GiveIndex(numero)
    \/ \E raw \in ConfirmInputs : Confirm(raw)
    \/ \E q \in QtyInputs : GiveQty(q)

Spec == Init /\ [][Next]_vars

\* ------------------------------------------------- matching_names alone
\* The characters of the generated names and queries.
MatchAlphabet == {"a", "B", " "}

\* Every string over MatchAlphabet of at most n characters.
Strings(n) == UNION { [1..k -> MatchAlphabet] : k \in 0..n }

MatchNames == Strings(MaxNameLen) \cup NameInputs

MatchQueries == Strings(MaxQueryLen) \cup QueryInputs

\* A product as add_product stores it, with the name typed at the prompt.
InitMatch ==
    /\ products = <<>>
    /\ uuidCount = 0
    /\ issued = {}
    /\ pc = "menu"
    /\ op = ""
    /\ nome = <<>>
    /\ produtos = <<>>
    /\ produto = 0
    /\ last = screen("start", <<>>, 0, "", <<>>)
    /\ \E raw \in MatchNames : m_product = Product(title(require(raw)), 0, 0).obj
    /\ m_query = <<>>
    /\ m_result = <<>>

\* get_product's call of matching_names with the name typed at its prompt.
ApplyMatch(raw) ==
    /\ m_result = <<>>
    /\ m_query' = require(raw)
    /\ m_result' = <<matching_names(m_product, require(raw))>>
    /\ UNCHANGED m_product
    /\ UNCHANGED mgr_vars

NextMatch == \E raw \in MatchQueries : ApplyMatch(raw)

SpecMatch == InitMatch /\ [][NextMatch]_vars

\* ================================================================ claims
\* Vocabulary of the claims, stated without the operators of the model.

\* s with its surrounding blanks removed.
Trimmed(s) ==
    LET solid == { i \in 1..Len(s) : s[i] # " " }
    IN  IF solid = {} THEN <<>>
        ELSE SubSeq(s, CHOOSE i \in solid : \A j \in solid : i <= j,
                       CHOOSE i \in solid : \A j \in solid : j <= i)

\* s trimmed and lower-cased.
Normalized(s) == [i \in 1..Len(Trimmed(s)) |-> lower_char(Trimmed(s)[i])]

\* s occurs in t as a run of consecutive characters.
IsSubstring(s, t) ==
    \E k \in 0..Len(t) :
        /\ k + Len(s) <= Len(t)
        /\ \A j \in 1..Len(s) : t[k + j] = s[j]

\* The product at position i matches the query q.
Matches(i, q) == matching_names(products[i].value, q)

\* The positions of the products that match q.
Matching(q) == { i \in 1..Len(products) : Matches(i, q) }

\* The ids in the collection.
Ids(d) == { d[i].value.id : i \in 1..Len(d) }

\* d without its k-th entry.
RemoveAt(d, k) == [i \in 1..(Len(d) - 1) |-> IF i < k THEN d[i] ELSE d[i + 1]]

\* The operator's answer confirms a deletion.
Confirmed(text) == Trimmed(text) # <<>> /\ Trimmed(text)[1] \in {"s", "S"}

\* The step hands the product at position i to its handler: it goes on to
\* the handler's next prompt with that product, or shows that product.
ReturnsProduct(i) ==
    \/ pc' \in {"confirm", "qty"} /\ produto' = i
    \/ pc' = "menu" /\ last'.status = "info" /\ last'.out = info_of(deref(products, i))

\* The step is the add action, a lookup by name, an answer to the index
\* prompt, an answer to the confirmation prompt, a recount.
IsAdd == pc = "menu" /\ last'.act = "add"

IsLookup == pc = "menu" /\ last'.act = "lookup"

IsIndex == pc = "index" /\ last'.act = "index"

IsConfirm == pc = "confirm" /\ last'.act = "confirm"

IsRecount == pc = "qty" /\ last'.act = "qty"

\* C1: in every reachable state every stored product has an integer
\* quantity >= 0.
C1_QuantityNeverNegative ==
    \A i \in 1..Len(products) : products[i].value.quantity \in Nat

\* C1 witness: a negative recount was attempted on a stored product.
C1_Witness ==
    /\ last.act = "qty"
    /\ last.num < 0
    /\ Len(products) > 0

\* C2: the interaction loop stops only when the operator selects exit (0);
\* every error is reported and the menu is offered again.
C2_OnlyExitStops ==
    pc \notin {"menu", "index", "confirm", "qty"} => (pc = "exited" /\ last.act = "exit")

\* C3: with count > 1 matches, an index is accepted only if it lies in
\* [0, count) and then the candidate at that position is returned; every
\* other index is refused and the index prompt is shown again.
C3_IndexInRange ==
    [][IsIndex =>
          IF last'.num \in 0..(Len(produtos) - 1)
          THEN ReturnsProduct(produtos[last'.num + 1])
          ELSE pc' = "index" /\ UNCHANGED <<products, op, nome, produtos, produto>>]_vars

\* C4: a lookup by name fails with NotFound when no product matches, returns
\* the product when exactly one matches (no index asked), and asks for an
\* index when several match; a returned product is in the collection and
\* matches the query; the lookup never changes the collection.
C4_LookupOutcomes ==
    [][/\ IsLookup =>
            LET M == Matching(last'.text)
            IN  /\ products' = products
                /\ Cardinality(M) = 0 =>
                       /\ last'.status = "ProductNotFound"
                       /\ pc' = "menu"
                       /\ \A i \in 1..Len(products) : ~ReturnsProduct(i)
                /\ Cardinality(M) = 1 =>
                       /\ pc' # "index"
                       /\ last'.status # "ProductNotFound"
                       /\ \A i \in 1..Len(products) : ReturnsProduct(i) <=> i \in M
                /\ Cardinality(M) > 1 =>
                       /\ pc' = "index"
                       /\ last'.status # "ProductNotFound"
                       /\ \A i \in 1..Len(products) : ~ReturnsProduct(i)
       /\ IsIndex =>
            /\ products' = products
            /\ \A i \in 1..Len(products) : ReturnsProduct(i) => i \in Matching(nome)]_vars

\* C4 witness: a lookup found two matches and waits for the index.
C4_Witness ==
    /\ pc = "index"
    /\ last.act = "lookup"
    /\ Cardinality(Matching(last.text)) = 2

C6_NegativeRejected ==
    [][/\ (IsAdd /\ last'.num < 0) =>
            (last'.status = "ValueError" /\ products' = products)
       /\ (IsRecount /\ last'.num < 0) =>
            (last'.status = "ValueError" /\ products' = products)]_vars

\* C6 witness: a recount to a negative quantity was refused.
C6_Witness ==
    /\ last.act = "qty"
    /\ last.num < 0
    /\ last.status = "ValueError"
    /\ Len(products) > 0

\* C7: delete removes a product only when the lookup resolved to a product
\* and the operator confirmed; it removes exactly the entry with that
\* product's id; after NotFound or no confirmation the collection is
\* unchanged.
C7_DeleteFrame ==
    [][/\ IsConfirm =>
            /\ produto \in Matching(nome)
            /\ IF Confirmed(last'.text)
               THEN \E k \in 1..Len(products) :
                        /\ products[k].value.id = deref(products, produto).id
                        /\ products' = RemoveAt(products, k)
                        /\ Ids(products') = Ids(products) \ {products[k].value.id}
               ELSE products' = products
       /\ (IsLookup /\ last'.status = "ProductNotFound") => products' = products
       /\ (Ids(products) \ Ids(products') # {} \/ Len(products') < Len(products)) =>
            (IsConfirm /\ op = "del" /\ Confirmed(last'.text))]_vars

\* C7 witness: a confirmed delete removed one product and left another.
C7_Witness ==
    /\ last.act = "confirm"
    /\ last.status = "Apagado"
    /\ Len(products) > 0

\* C8: every key equals the id of the product under it and no two entries
\* share an id; an id never changes and is never given to a later product.
C8_KeysAreIds ==
    /\ \A i \in 1..Len(products) : products[i].key = products[i].value.id
    /\ \A i, j \in 1..Len(products) :
           products[i].value.id = products[j].value.id => i = j

C8_IdsStable ==
    /\ \A i \in 1..Len(products), j \in 1..Len(products') :
           products[i].key = products'[j].key =>
               products'[j].value.id = products[i].value.id
    /\ \A j \in 1..Len(products') :
           products'[j].value.id \notin Ids(products) =>
               products'[j].value.id \notin issued
    /\ issued \subseteq issued'
    /\ Ids(products') \subseteq issued'

C8_UniqueIds == []C8_KeysAreIds /\ [][C8_IdsStable]_vars

\* C8 witness: a product was added after an earlier one had been deleted.
C8_Witness ==
    /\ last.act = "add"
    /\ last.status = "adicionado"
    /\ Cardinality(issued) > Len(products)

\* C9: a recount to n >= 0 sets the product's quantity to n and changes
\* nothing else; a recount to the current quantity leaves the state as it
\* is, and a second equal recount changes nothing.
C9_RecountFrame ==
    [][(IsRecount /\ last'.num >= 0) =>
          /\ last'.status = "Salvo"
          /\ Len(products') = Len(products)
          /\ \A i \in 1..Len(products) :
                 /\ products'[i].key = products[i].key
                 /\ products'[i].value.id = products[i].value.id
                 /\ products'[i].value.nome = products[i].value.nome
                 /\ products'[i].value.quantity =
                        IF i = produto THEN last'.num ELSE products[i].value.quantity
          /\ last'.num = deref(products, produto).quantity => products' = products
          /\ LET again == re_count(deref(products', produto), last'.num)
             IN  ~again.raised /\ store(products', produto, again.obj) = products']_vars

\* C9 witness: a recount was saved while another product was in store.
C9_Witness ==
    /\ last.act = "qty"
    /\ last.status = "Salvo"
    /\ Len(products) > 1

\* C10: add with q >= 0 succeeds whether or not the name exists: one new
\* entry with a fresh id, quantity q, out of stock iff q = 0; no existing
\* entry is changed.
C10_AddAppends ==
    [][(IsAdd /\ last'.num >= 0) =>
          /\ last'.status = "adicionado"
          /\ Len(products') = Len(products) + 1
          /\ SubSeq(products', 1, Len(products)) = products
          /\ LET e == products'[Len(products')]
             IN  /\ e.key = e.value.id
                 /\ e.value.id \notin issued
                 /\ e.value.id \notin Ids(products)
                 /\ e.value.quantity = last'.num
                 /\ out_of_stock(e.value) <=> (last'.num = 0)]_vars

\* C10 witness: two products with equal names are stored side by side.
C10_Witness ==
    /\ last.act = "add"
    /\ last.status = "adicionado"
    /\ \E i, j \in 1..Len(products) :
           i # j /\ products[i].value.nome = products[j].value.nome

====
